---- MODULE Spec2Model ----
(***************************************************************************)
(* Model of the task execution and result-reconciliation framework of the  *)
(* inet Python tooling: SimulationTask and its result classification,      *)
(* MultipleSimulationTasks (build, then run the children), the MultipleTasks*)
(* rollup, clean_simulation_results, ChartTestTask / ChartUpdateTask and    *)
(* MultipleChartTestTasks, the life of one SimulationTask instance          *)
(* (construction, is_interactive, run) and the parsing of the captured     *)
(* outputs in SimulationTaskResult, and the task lists built by             *)
(* get_simulation_tasks and get_chart_test_tasks.                          *)
(*                                                                         *)
(* Text (paths, file names) is modelled as sequences of string pieces, so  *)
(* that searching and substituting in it can be computed piece by piece.   *)
(***************************************************************************)
EXTENDS Integers, Sequences, FiniteSets, TLC

VARIABLES
    \* ---- rollup of a list of child result codes (MultipleTaskResults)
    children,        \* the child result codes, in submission order
    permuted,        \* the same codes in some completion order
    aggregate,       \* rollup of children, NoValue before it is computed
    aggregatePermuted, \* rollup of permuted, NoValue before it is computed
    \* ---- SimulationTask.run_protected
    simRuns,         \* the SimulationTaskResults produced so far
    \* ---- clean_simulation_results
    workingDirectory, \* full path of the configuration's working directory
    resultsExists,   \* whether <working directory>/results exists on disk
    cleanOutcome,    \* how the last clean_simulation_results call ended
    cleanDeleted,    \* whether the last call removed the results directory
    \* ---- MultipleSimulationTasks.run / MultipleChartTestTasks.run_protected
    entry,           \* the operation that was called
    pc,              \* where that operation is
    build,           \* the build argument of MultipleSimulationTasks.run
    buildOutcome,    \* what build_project did
    concurrent,      \* the concurrent argument of the batch
    poolSize,        \* the number of workers of the pool
    simState,        \* lifecycle state of each simulation task
    simCompleted,    \* simulation task results, in completion order
    simResults,      \* the MultipleTaskResults of the simulation batch
    chartState,      \* lifecycle state of each chart test task
    chartCompleted,  \* chart test task results, in completion order
    chartResults,    \* the MultipleTaskResults of the chart test batch
    outcome,         \* how the called operation ended
    \* ---- ChartTestTask / ChartUpdateTask on the media folder
    analysis,        \* name of each chart of the file -> its image_export_filename
    files,           \* file name -> content, Absent when there is no file
    lastTask,        \* the last chart task that ran, and what it returned
    previousTask,    \* the chart task that ran before the last one
    \* ---- one SimulationTask instance, from construction to its run
    constructedBy,   \* how the task was created, "none" before it is
    timeLimitParam,  \* the sim_time_limit argument the caller supplies
    functionValue,   \* what the caller's function returns for (config, run) now
    functionCalls,   \* how often that function has been called for (config, run)
    sim_time_limit,  \* the task's sim_time_limit field
    interactive,     \* the task's interactive field, NoValue until it is computed
    prompts,         \* whether the configured simulation asks for user input
    workerPc,        \* where each worker is in its is_interactive call
    workerReturned,  \* what each worker's last is_interactive call returned
    processes,       \* the simulator processes started for the task, in order
    ran,             \* whether run_protected has run
    args,            \* the time limit arguments run_protected put in the argument vector
    returned,        \* what run_protected returned
    \* ---- SimulationTaskResult.__init__
    built,           \* the SimulationTaskResult last constructed
    \* ---- get_simulation_tasks / get_chart_test_tasks
    simulationConfigs, \* the simulation configs of the project, in order
    chartFolders,    \* the working directory of each chart of the analysis files, in order
    runArgument,     \* the run argument, NoRun when none is given
    factoryCalled,   \* the factory that was called, "none" before
    createdTasks,    \* the simulation tasks of the batch the factory returned
    createdTests     \* the chart test tasks get_chart_test_tasks returned

rollupVars == <<children, permuted, aggregate, aggregatePermuted>>
simVars == <<simRuns>>
cleanVars == <<workingDirectory, resultsExists, cleanOutcome, cleanDeleted>>
batchVars == <<entry, pc, build, buildOutcome, concurrent, poolSize, simState, simCompleted,
               simResults, chartState, chartCompleted, chartResults, outcome>>
chartVars == <<analysis, files, lastTask, previousTask>>
taskVars == <<constructedBy, timeLimitParam, functionValue, functionCalls, sim_time_limit,
              interactive, prompts, workerPc, workerReturned, processes, ran, args, returned>>
resultVars == <<built>>
factoryVars == <<simulationConfigs, chartFolders, runArgument, factoryCalled, createdTasks,
                 createdTests>>
vars == <<rollupVars, simVars, cleanVars, batchVars, chartVars, taskVars, resultVars,
          factoryVars>>

\* what each part of the model leaves alone
notRollup ==
    <<simVars, cleanVars, batchVars, chartVars, taskVars, resultVars, factoryVars>>
notSim ==
    <<rollupVars, cleanVars, batchVars, chartVars, taskVars, resultVars, factoryVars>>
notClean ==
    <<rollupVars, simVars, batchVars, chartVars, taskVars, resultVars, factoryVars>>
notBatch ==
    <<rollupVars, simVars, cleanVars, chartVars, taskVars, resultVars, factoryVars>>
notChart ==
    <<rollupVars, simVars, cleanVars, batchVars, taskVars, resultVars, factoryVars>>
notTask ==
    <<rollupVars, simVars, cleanVars, batchVars, chartVars, resultVars, factoryVars>>
notResult ==
    <<rollupVars, simVars, cleanVars, batchVars, chartVars, taskVars, factoryVars>>
notFactory ==
    <<rollupVars, simVars, cleanVars, batchVars, chartVars, taskVars, resultVars>>

\* Python's None for a reason, a result code or a name
NoValue == "None"

----------------------------------------------------------------------------
(* Bounds of the model *)

MaxChildren == 3
MaxRc == 2
MaxRuns == 2

----------------------------------------------------------------------------
(* MultipleTaskResults: the rollup of the child result codes *)

RollupCodes == {"DONE", "ERROR", "CANCEL", "FAIL", "SKIP"}

RECURSIVE CountResults(_, _)
\* number of children whose result code is code
CountResults(results, code) ==
    IF results = <<>> THEN 0
    ELSE (IF Head(results) = code THEN 1 ELSE 0) + CountResults(Tail(results), code)

\* a rollup that lets ERROR win over CANCEL
GetResultErrorFirst(results, expected) ==
    IF CountResults(results, "ERROR") > 0 THEN "ERROR"
    ELSE IF CountResults(results, "CANCEL") > 0 THEN "CANCEL"
    ELSE IF CountResults(results, "FAIL") > 0 THEN "FAIL"
    ELSE IF CountResults(results, "SKIP") = Len(results) THEN "SKIP"
    ELSE expected

RECURSIVE FirstUnexpected(_, _)
\* a rollup that reports the first child that is not the expected code
FirstUnexpected(results, expected) ==
    IF results = <<>> THEN expected
    ELSE IF Head(results) # expected THEN Head(results)
    ELSE FirstUnexpected(Tail(results), expected)

\* the aggregate code of a batch whose successful children report expected
GetResult(results, expected) ==
    IF CountResults(results, "CANCEL") > 0 THEN "CANCEL"
    ELSE IF CountResults(results, "ERROR") > 0 THEN "ERROR"
    ELSE IF CountResults(results, "FAIL") > 0 THEN "FAIL"
    ELSE IF CountResults(results, "SKIP") = Len(results) THEN "SKIP"
    ELSE expected

\* the rollup as the batch of simulation tasks uses it
Rollup(results) == GetResult(results, "DONE")

SeqsUpTo(S, n) == UNION {[1..k -> S] : k \in 0..n}

IndexPermutations(n) == {p \in [1..n -> 1..n] : \A i, j \in 1..n : i # j => p[i] # p[j]}

InitRollup ==
    /\ children \in SeqsUpTo(RollupCodes, MaxChildren)
    /\ permuted = children
    /\ aggregate = NoValue
    /\ aggregatePermuted = NoValue

\* the children complete in some order
Permute ==
    /\ aggregate = NoValue
    /\ \E p \in IndexPermutations(Len(children)) :
           permuted' = [i \in 1..Len(children) |-> children[p[i]]]
    /\ UNCHANGED <<children, aggregate, aggregatePermuted, notRollup>>

\* MultipleTaskResults is built from the children
ComputeRollup ==
    /\ aggregate = NoValue
    /\ aggregate' = Rollup(children)
    /\ aggregatePermuted' = Rollup(permuted)
    /\ UNCHANGED <<children, permuted, notRollup>>

NextRollup == Permute \/ ComputeRollup

----------------------------------------------------------------------------
(* SimulationTask.run_protected and SimulationTaskResult *)

SIGINT == 2

ReturnCodes == (0 - MaxRc)..MaxRc

\* captured standard output: nothing, or the time limit line
Stdouts == {<<>>, <<"<!> Simulation time limit reached -- at t=", "12.5s", ", event #", "340">>}

\* captured standard error: nothing, an error report with or without a module
Stderrs == {<<>>,
            <<"<!> Error: ", "Queue overflow">>,
            <<"<!> Error: ", "Queue overflow", " -- in module ", "net.switch[3]">>}

SubprocessResults == [returncode : ReturnCodes, stdout : Stdouts, stderr : Stderrs]

\* the texts the two patterns of SimulationTaskResult are made of
TimeLimitMarker == "<!> Simulation time limit reached -- at t="

EventMarker == ", event #"

ErrorMarker == "<!> Error: "

ModuleMarker == " -- in module "

Newline == "\n"

\* the runs of decimal digits that occur in the outputs
DigitPieces == {"3", "40", "340"}

DigitValue(piece) == CASE piece = "3" -> 3 [] piece = "40" -> 40 [] piece = "340" -> 340

DigitWidth(piece) == CASE piece = "3" -> 1 [] piece = "40" -> 2 [] piece = "340" -> 3

RECURSIVE Power10(_)
Power10(n) == IF n = 0 THEN 1 ELSE 10 * Power10(n - 1)

RECURSIVE IntOf(_)
\* int(text) of a text of decimal digits
IntOf(digits) ==
    IF digits = <<>> THEN 0
    ELSE LET last == digits[Len(digits)]
         IN  IntOf(SubSeq(digits, 1, Len(digits) - 1)) * Power10(DigitWidth(last))
               + DigitValue(last)

Least(S) == CHOOSE x \in S : \A y \in S : x <= y

Greatest(S) == CHOOSE x \in S : \A y \in S : x >= y

\* "." matches everything but a newline: text[from..to] stays on one line
OneLine(text, from, to) == \A k \in from..to : text[k] # Newline

RECURSIVE DigitRun(_, _)
\* \d+ from position k: the longest run of digits
DigitRun(text, k) ==
    IF k <= Len(text) /\ text[k] \in DigitPieces
    THEN <<text[k]>> \o DigitRun(text, k + 1) ELSE <<>>

\* the end of the line position k is on: the last position before the next newline
LineEnd(text, k) ==
    LET newlines == {n \in k..Len(text) : text[n] = Newline}
    IN  IF newlines = {} THEN Len(text) ELSE Least(newlines) - 1

\* a "(.*), event #(\d+)" that also matches when a newline lies before the event marker
EventMarksAcrossLines(text, i) ==
    {j \in (i + 1)..(Len(text) - 1) : text[j] = EventMarker /\ text[j + 1] \in DigitPieces}

\* where ", event #(\d+)" can match after "(.*)" from the time limit marker at i
EventMarks(text, i) ==
    {j \in (i + 1)..(Len(text) - 1) :
        /\ text[j] = EventMarker /\ text[j + 1] \in DigitPieces
        /\ OneLine(text, i + 1, j - 1)}

NoMatch == [found |-> FALSE, group1 |-> <<>>, group2 |-> <<>>]

\* re.search(r"<!> Simulation time limit reached -- at t=(.*), event #(\d+)", stdout):
\* the leftmost match, its (.*) as long as it can be
SearchTimeLimit(stdout) ==
    LET starts == {i \in 1..Len(stdout) :
                      stdout[i] = TimeLimitMarker /\ EventMarks(stdout, i) # {}}
    IN  IF starts = {} THEN NoMatch
        ELSE LET i == Least(starts)
                 j == Greatest(EventMarks(stdout, i))
             IN  [found |-> TRUE, group1 |-> SubSeq(stdout, i + 1, j - 1),
                  group2 |-> DigitRun(stdout, j + 1)]

\* where " -- in module " can match after "(.*)" from the error marker at i
ModuleMarks(text, i) ==
    {j \in (i + 1)..Len(text) : text[j] = ModuleMarker /\ OneLine(text, i + 1, j - 1)}

\* re.search("<!> Error: (.*) -- in module (.*)", stderr)
SearchErrorInModule(stderr) ==
    LET starts == {i \in 1..Len(stderr) :
                      stderr[i] = ErrorMarker /\ ModuleMarks(stderr, i) # {}}
    IN  IF starts = {} THEN NoMatch
        ELSE LET i == Least(starts)
                 j == Greatest(ModuleMarks(stderr, i))
             IN  [found |-> TRUE, group1 |-> SubSeq(stderr, i + 1, j - 1),
                  group2 |-> SubSeq(stderr, j + 1, LineEnd(stderr, j + 1))]

\* re.search("<!> Error: (.*)", stderr)
SearchError(stderr) ==
    LET starts == {i \in 1..Len(stderr) : stderr[i] = ErrorMarker}
    IN  IF starts = {} THEN NoMatch
        ELSE LET i == Least(starts)
             IN  [found |-> TRUE, group1 |-> SubSeq(stderr, i + 1, LineEnd(stderr, i + 1)),
                  group2 |-> <<>>]

\* a piece without the whitespace it begins with, "" when nothing is left
LStripPiece(piece) ==
    CASE piece = " " -> ""
      [] piece = ModuleMarker -> "-- in module "
      [] OTHER -> piece

\* a piece without the whitespace it ends with, "" when nothing is left
RStripPiece(piece) ==
    CASE piece = " " -> ""
      [] piece = ModuleMarker -> " -- in module"
      [] piece = "-- in module " -> "-- in module"
      [] piece = ErrorMarker -> "<!> Error:"
      [] OTHER -> piece

RECURSIVE LStrip(_)
LStrip(text) ==
    IF text = <<>> THEN <<>>
    ELSE LET piece == LStripPiece(Head(text))
         IN  IF piece = "" THEN LStrip(Tail(text)) ELSE <<piece>> \o Tail(text)

RECURSIVE RStrip(_)
RStrip(text) ==
    IF text = <<>> THEN <<>>
    ELSE LET front == SubSeq(text, 1, Len(text) - 1)
             piece == RStripPiece(text[Len(text)])
         IN  IF piece = "" THEN RStrip(front) ELSE front \o <<piece>>

\* str.strip()
Strip(text) == RStrip(LStrip(text))

\* a field that is None, and a field that has a value
Missing == {}

Present(value) == {value}

\* the subprocess_result of a result constructed without one
NoSubprocessResult == [returncode |-> 0, stdout |-> <<>>, stderr |-> <<>>, captured |-> FALSE]

TimeLimitFields(subprocess_result) ==
    LET match == SearchTimeLimit(subprocess_result.stdout)
    IN  [last_event_number |-> IF match.found THEN Present(IntOf(match.group2)) ELSE Missing,
         last_simulation_time |-> IF match.found THEN Present(match.group1) ELSE Missing]

\* error fields where the bare pattern is searched whatever the first search found
ErrorFieldsAlwaysBare(subprocess_result) ==
    LET match == SearchErrorInModule(subprocess_result.stderr)
        bare == SearchError(subprocess_result.stderr)
    IN  [error_message |-> IF bare.found THEN Present(Strip(bare.group1)) ELSE Missing,
         error_module |-> IF match.found THEN Present(Strip(match.group2)) ELSE Missing]

ErrorFields(subprocess_result) ==
    LET match == SearchErrorInModule(subprocess_result.stderr)
        bare == SearchError(subprocess_result.stderr)
    IN  [error_message |-> IF match.found THEN Present(Strip(match.group1))
                           ELSE IF bare.found THEN Present(Strip(bare.group1)) ELSE Missing,
         error_module |-> IF match.found THEN Present(Strip(match.group2)) ELSE Missing]

SimulationTaskResult(result, subprocess_result, reason) ==
    LET time_limit == IF subprocess_result # NoSubprocessResult
                      THEN TimeLimitFields(subprocess_result)
                      ELSE [last_event_number |-> Missing, last_simulation_time |-> Missing]
        error == IF subprocess_result # NoSubprocessResult
                 THEN ErrorFields(subprocess_result)
                 ELSE [error_message |-> Missing, error_module |-> Missing]
    IN  [result |-> result, reason |-> reason, subprocess_result |-> subprocess_result,
         last_event_number |-> time_limit.last_event_number,
         last_simulation_time |-> time_limit.last_simulation_time,
         error_message |-> error.error_message,
         error_module |-> error.error_module]

\* a classification that looks at the sign of SIGINT the wrong way round
ClassifyPositiveSignal(subprocess_result) ==
    IF subprocess_result.returncode = SIGINT
    THEN SimulationTaskResult("CANCEL", subprocess_result, "Cancel by user")
    ELSE IF subprocess_result.returncode = 0
    THEN SimulationTaskResult("DONE", subprocess_result, NoValue)
    ELSE SimulationTaskResult("ERROR", subprocess_result, "Non-zero exit code")

\* a classification that also reports an error when the process printed one
ClassifyByStderr(subprocess_result) ==
    IF subprocess_result.returncode = 0 - SIGINT
    THEN SimulationTaskResult("CANCEL", subprocess_result, "Cancel by user")
    ELSE IF subprocess_result.returncode = 0 /\ subprocess_result.stderr = <<>>
    THEN SimulationTaskResult("DONE", subprocess_result, NoValue)
    ELSE SimulationTaskResult("ERROR", subprocess_result, "Non-zero exit code")

\* a classification with a code of its own for an interrupted process
ClassifyInterrupted(subprocess_result) ==
    IF subprocess_result.returncode = 0 - SIGINT
    THEN SimulationTaskResult("INTERRUPTED", subprocess_result, "Cancel by user")
    ELSE IF subprocess_result.returncode = 0
    THEN SimulationTaskResult("DONE", subprocess_result, NoValue)
    ELSE SimulationTaskResult("ERROR", subprocess_result, "Non-zero exit code")

\* the result SimulationTask.run_protected builds from what the runner returned
Classify(subprocess_result) ==
    IF subprocess_result.returncode = 0 - SIGINT
    THEN SimulationTaskResult("CANCEL", subprocess_result, "Cancel by user")
    ELSE IF subprocess_result.returncode = 0
    THEN SimulationTaskResult("DONE", subprocess_result, NoValue)
    ELSE SimulationTaskResult("ERROR", subprocess_result, "Non-zero exit code")

InitSim == simRuns = <<>>

\* one SimulationTask runs: the runner returns, the result is classified
SimulationTask_run_protected ==
    /\ Len(simRuns) < MaxRuns
    /\ \E subprocess_result \in SubprocessResults :
           simRuns' = Append(simRuns, Classify(subprocess_result))
    /\ UNCHANGED notSim

NextSim == SimulationTask_run_protected

----------------------------------------------------------------------------
(* clean_simulation_results *)

MaxPathLen == 3

PathPieces == {"/", "home", "tmp"}

\* the pieces of the pattern ".*/home/.*" that are not wildcards
HomePattern == <<"/", "home", "/">>

\* os.path.join(directory, name)
PathJoin(directory, name) ==
    IF directory = <<>> THEN <<name>>
    ELSE IF directory[Len(directory)] = "/" THEN Append(directory, name)
    ELSE directory \o <<"/", name>>

\* whether text continues with pattern from position i on
MatchesAt(text, pattern, i) ==
    /\ i + Len(pattern) - 1 <= Len(text)
    /\ \A k \in 1..Len(pattern) : text[i + k - 1] = pattern[k]

RECURSIVE SearchFrom(_, _, _)
\* re.search of a literal pattern, trying each start position in turn
SearchFrom(text, pattern, i) ==
    IF i > Len(text) THEN FALSE
    ELSE IF MatchesAt(text, pattern, i) THEN TRUE
    ELSE SearchFrom(text, pattern, i + 1)

\* a guard that accepts any path that mentions home
PathMentionsHome(path) == SearchFrom(path, <<"home">>, 1)

\* re.search(".*/home/.*", path)
PathIsInHome(path) == SearchFrom(path, HomePattern, 1)

ResultsPath == PathJoin(workingDirectory, "results")

InitClean ==
    /\ workingDirectory \in SeqsUpTo(PathPieces, MaxPathLen)
    /\ resultsExists \in BOOLEAN
    /\ cleanOutcome = "none"
    /\ cleanDeleted = FALSE

clean_simulation_results ==
    /\ IF ~PathIsInHome(ResultsPath)
       THEN /\ cleanOutcome' = "raised"
            /\ cleanDeleted' = FALSE
            /\ UNCHANGED resultsExists
       ELSE /\ cleanOutcome' = "returned"
            /\ cleanDeleted' = resultsExists
            /\ resultsExists' = FALSE
    /\ UNCHANGED <<workingDirectory, notClean>>

\* a simulation of the configuration runs and writes its results directory
WriteResults ==
    /\ ~resultsExists
    /\ resultsExists' = TRUE
    /\ UNCHANGED <<workingDirectory, cleanOutcome, cleanDeleted, notClean>>

NextClean == clean_simulation_results \/ WriteResults

----------------------------------------------------------------------------
(* MultipleTasks.run_protected, MultipleSimulationTasks.run and            *)
(* MultipleChartTestTasks.run_protected                                    *)

MaxTasks == 2
MaxPool == 2

\* what the build collaborator can do: build, raise, or report a failure
BuildOutcomes == {"success", "raised", "failure returned"}

\* the result codes ChartTestTask.run_protected returns
ChartTestResults == {"PASS", "FAIL", "SKIP", "ERROR"}

NoResults == [children |-> <<>>, result |-> NoValue, reason |-> NoValue]

NoOutcome == [kind |-> "none", result |-> NoValue, reason |-> NoValue, exception |-> NoValue]

Returned(results) ==
    [kind |-> "returned", result |-> results.result, reason |-> results.reason, exception |-> NoValue]

Raised(exception) ==
    [kind |-> "raised", result |-> NoValue, reason |-> NoValue, exception |-> exception]

\* the child results in the order the children completed
CompletionOrderResults(completed, n) == completed

\* the child results in the order the children were submitted (pool.map)
OrderedResults(completed, n) ==
    [i \in 1..n |-> CHOOSE r \in {completed[k] : k \in 1..Len(completed)} : r.task = i]

ResultCodes(results) == [i \in 1..Len(results) |-> results[i].result]

\* MultipleTaskResults of the children, expected being the code of success
MultipleTaskResults(results, expected) ==
    [children |-> results, result |-> GetResult(ResultCodes(results), expected), reason |-> NoValue]

\* the simulation batch runs sequentially under MultipleChartTestTasks
SimulationsConcurrent == IF entry = "run_chart_tests" THEN FALSE ELSE concurrent

Capacity(isConcurrent) == IF isConcurrent THEN poolSize ELSE 1

Running(state) == {i \in DOMAIN state : state[i] = "RUNNING"}

\* the next task the pool hands to a free worker
CanStart(state, i, isConcurrent) ==
    /\ state[i] = "PENDING"
    /\ \A j \in 1..(i - 1) : state[j] # "PENDING"
    /\ Cardinality(Running(state)) < Capacity(isConcurrent)

AllTerminal(state) == \A i \in DOMAIN state : state[i] = "TERMINAL"

\* a test that goes on to the chart tests unless the simulations reported ERROR
ShortCircuitsOnError(results) == results.result = "ERROR"

\* the test of MultipleChartTestTasks.run_protected on the simulation batch
ShortCircuits(results) == results.result # "DONE"

InitBatch ==
    /\ entry \in {"run_simulations", "run_chart_tests"}
    /\ pc = "start"
    /\ build \in BOOLEAN
    /\ entry = "run_chart_tests" => build = FALSE
    /\ buildOutcome = "not called"
    /\ concurrent \in BOOLEAN
    /\ poolSize \in 1..MaxPool
    /\ ~concurrent => poolSize = 1
    /\ \E n \in 1..MaxTasks : simState = [i \in 1..n |-> "PENDING"]
    /\ IF entry = "run_simulations"
       THEN chartState = <<>>
       ELSE \E m \in 1..MaxTasks : chartState = [i \in 1..m |-> "PENDING"]
    /\ simCompleted = <<>>
    /\ chartCompleted = <<>>
    /\ simResults = NoResults
    /\ chartResults = NoResults
    /\ outcome = NoOutcome

\* MultipleSimulationTasks.run, build enabled: build_project is called first
RunBuild ==
    /\ pc = "start" /\ entry = "run_simulations" /\ build
    /\ \E o \in BuildOutcomes :
         /\ buildOutcome' = o
         /\ IF o = "raised"
            THEN pc' = "done" /\ outcome' = Raised("build_project")
            ELSE pc' = "simulations" /\ outcome' = outcome
    /\ UNCHANGED <<entry, build, concurrent, poolSize, simState, simCompleted, simResults,
                   chartState, chartCompleted, chartResults, notBatch>>

\* MultipleSimulationTasks.run, build disabled
SkipBuild ==
    /\ pc = "start" /\ entry = "run_simulations" /\ ~build
    /\ pc' = "simulations"
    /\ UNCHANGED <<entry, build, buildOutcome, concurrent, poolSize, simState, simCompleted,
                   simResults, chartState, chartCompleted, chartResults, outcome, notBatch>>

\* MultipleChartTestTasks.run_protected calls the simulation batch
RunSimulationsFirst ==
    /\ pc = "start" /\ entry = "run_chart_tests"
    /\ pc' = "simulations"
    /\ UNCHANGED <<entry, build, buildOutcome, concurrent, poolSize, simState, simCompleted,
                   simResults, chartState, chartCompleted, chartResults, outcome, notBatch>>

\* a worker takes the next simulation task
StartSimulationTask(i) ==
    /\ pc = "simulations"
    /\ CanStart(simState, i, SimulationsConcurrent)
    /\ simState' = [simState EXCEPT ![i] = "RUNNING"]
    /\ UNCHANGED <<entry, pc, build, buildOutcome, concurrent, poolSize, simCompleted,
                   simResults, chartState, chartCompleted, chartResults, outcome, notBatch>>

\* a simulation task's process exits and its result is classified
FinishSimulationTask(i) ==
    /\ pc = "simulations"
    /\ simState[i] = "RUNNING"
    /\ \E returncode \in ReturnCodes :
         LET r == Classify([returncode |-> returncode, stdout |-> <<>>, stderr |-> <<>>])
         IN  simCompleted' = Append(simCompleted,
                                    [task |-> i, result |-> r.result, reason |-> r.reason])
    /\ simState' = [simState EXCEPT ![i] = "TERMINAL"]
    /\ UNCHANGED <<entry, pc, build, buildOutcome, concurrent, poolSize,
                   simResults, chartState, chartCompleted, chartResults, outcome, notBatch>>

\* all simulation tasks are joined and rolled up; the caller goes on
JoinSimulations ==
    /\ pc = "simulations"
    /\ AllTerminal(simState)
    /\ LET results == MultipleTaskResults(OrderedResults(simCompleted, Len(simState)), "DONE")
       IN  /\ simResults' = results
           /\ IF entry = "run_simulations"
              THEN pc' = "done" /\ outcome' = Returned(results)
              ELSE IF ShortCircuits(results)
              THEN pc' = "done" /\ outcome' = Raised("NameError")
              ELSE pc' = "charts" /\ outcome' = outcome
    /\ UNCHANGED <<entry, build, buildOutcome, concurrent, poolSize, simState, simCompleted,
                   chartState, chartCompleted, chartResults, notBatch>>

\* a worker takes the next chart test task
StartChartTask(i) ==
    /\ pc = "charts"
    /\ CanStart(chartState, i, concurrent)
    /\ chartState' = [chartState EXCEPT ![i] = "RUNNING"]
    /\ UNCHANGED <<entry, pc, build, buildOutcome, concurrent, poolSize, simState,
                   simCompleted, simResults, chartCompleted, chartResults, outcome, notBatch>>

\* a chart test task returns its result
FinishChartTask(i) ==
    /\ pc = "charts"
    /\ chartState[i] = "RUNNING"
    /\ \E result \in ChartTestResults :
         chartCompleted' = Append(chartCompleted,
                                  [task |-> i, result |-> result, reason |-> NoValue])
    /\ chartState' = [chartState EXCEPT ![i] = "TERMINAL"]
    /\ UNCHANGED <<entry, pc, build, buildOutcome, concurrent, poolSize, simState,
                   simCompleted, simResults, chartResults, outcome, notBatch>>

\* all chart test tasks are joined and rolled up
JoinCharts ==
    /\ pc = "charts"
    /\ AllTerminal(chartState)
    /\ LET results == MultipleTaskResults(OrderedResults(chartCompleted, Len(chartState)), "PASS")
       IN  /\ chartResults' = results
           /\ outcome' = Returned(results)
    /\ pc' = "done"
    /\ UNCHANGED <<entry, build, buildOutcome, concurrent, poolSize, simState, simCompleted,
                   simResults, chartState, chartCompleted, notBatch>>

NextBatch ==
    \/ RunBuild
    \/ SkipBuild
    \/ RunSimulationsFirst
    \/ \E i \in DOMAIN simState : StartSimulationTask(i)
    \/ \E i \in DOMAIN simState : FinishSimulationTask(i)
    \/ JoinSimulations
    \/ \E i \in DOMAIN chartState : StartChartTask(i)
    \/ \E i \in DOMAIN chartState : FinishChartTask(i)
    \/ JoinCharts

----------------------------------------------------------------------------
(* ChartTestTask.run_protected and ChartUpdateTask.run_protected            *)

MaxNameLen == 2
MaxImage == 2

\* the names a chart of an analysis file can have
Charts == {"chart1", "chart2"}

\* a chart task can also name a chart the analysis file does not have
TaskCharts == Charts \cup {"no such chart"}

NamePieces == {"a", "_new"}

\* the image_export_filename property: None, or a text (that can be empty)
DeclaredNames ==
    {[specified |-> FALSE, text |-> <<>>]}
    \cup {[specified |-> TRUE, text |-> t] : t \in SeqsUpTo(NamePieces, MaxNameLen)}

FileNames == {n \o <<".png">> : n \in SeqsUpTo(NamePieces, MaxNameLen + 1)}

Absent == 0

Images == 1..MaxImage

\* analysis.export_image(..., format="png", filename=filename): the file it writes
ExportedFileName(filename) == filename \o <<".png">>

RECURSIVE ReSub(_, _)
\* re.sub(pattern, "", text): every occurrence of pattern is removed
ReSub(pattern, text) ==
    IF text = <<>> THEN <<>>
    ELSE IF Head(text) = pattern THEN ReSub(pattern, Tail(text))
    ELSE <<Head(text)>> \o ReSub(pattern, Tail(text))

\* a candidate exported under the declared name itself
NewFileNameInPlace(name) == ExportedFileName(name.text)

NewFileName(name) == ExportedFileName(name.text \o <<"_new">>)

OldFileName(name) == ReSub("_new", NewFileName(name))

\* a metric taken of the new image alone, as against a blank baseline
RmseAgainstBlank(old_image, new_image) == new_image

\* sewar.rmse of two images: 0 exactly when they are the same image
Rmse(old_image, new_image) ==
    IF old_image >= new_image THEN old_image - new_image ELSE new_image - old_image

TaskResult(result, reason) == [result |-> result, reason |-> reason, exception |-> NoValue]

TaskRaised(exception) == [result |-> NoValue, reason |-> NoValue, exception |-> exception]

\* the folder after export_image has written the candidate
Exported(fs, name, image) == [fs EXCEPT ![NewFileName(name)] = image]

\* the image export_image has rendered: none when building its filename raised
Rendered(name, image) == IF name.specified THEN image ELSE Absent

\* a ChartUpdateTask that replaces an existing baseline without comparing
UpdateChartAlwaysReplaces(fs, name, image) ==
    IF ~name.specified
    THEN [files |-> fs, returned |-> TaskRaised("TypeError")]
    ELSE LET new_file_name == NewFileName(name)
             old_file_name == OldFileName(name)
             exported == Exported(fs, name, image)
         IN  IF name.text = <<>>
             THEN [files |-> exported,
                   returned |-> TaskResult("SKIP", "Chart file name is not specified")]
             ELSE [files |-> [exported EXCEPT ![old_file_name] = exported[new_file_name],
                                              ![new_file_name] = Absent],
                   returned |-> IF exported[old_file_name] # Absent
                                THEN TaskResult("UPDATE", NoValue)
                                ELSE TaskResult("INSERT", NoValue)]

\* ChartUpdateTask.run_protected on the chart found: the result and the folder
UpdateChart(fs, name, image) ==
    IF ~name.specified
    THEN [files |-> fs, returned |-> TaskRaised("TypeError")]
    ELSE LET new_file_name == NewFileName(name)
             old_file_name == OldFileName(name)
             exported == Exported(fs, name, image)
         IN  IF name.text = <<>>
             THEN [files |-> exported,
                   returned |-> TaskResult("SKIP", "Chart file name is not specified")]
             ELSE IF exported[old_file_name] # Absent
             THEN IF exported[old_file_name] = exported[new_file_name]
                  THEN [files |-> [exported EXCEPT ![new_file_name] = Absent],
                        returned |-> TaskResult("KEEP", NoValue)]
                  ELSE [files |-> [exported EXCEPT ![old_file_name] = exported[new_file_name],
                                                   ![new_file_name] = Absent],
                        returned |-> TaskResult("UPDATE", NoValue)]
             ELSE [files |-> [exported EXCEPT ![old_file_name] = exported[new_file_name],
                                              ![new_file_name] = Absent],
                   returned |-> TaskResult("INSERT", NoValue)]

\* a ChartTestTask that removes the candidate only when the comparison passes
TestChartRemovesOnPass(fs, name, image, keep_charts) ==
    IF ~name.specified
    THEN [files |-> fs, returned |-> TaskRaised("TypeError")]
    ELSE LET new_file_name == NewFileName(name)
             old_file_name == OldFileName(name)
             exported == Exported(fs, name, image)
         IN  IF name.text = <<>>
             THEN [files |-> exported,
                   returned |-> TaskResult("SKIP", "Chart file name is not specified")]
             ELSE IF exported[old_file_name] # Absent
             THEN LET metric == Rmse(exported[old_file_name], exported[new_file_name])
                  IN  [files |-> IF ~keep_charts /\ metric = 0
                                 THEN [exported EXCEPT ![new_file_name] = Absent]
                                 ELSE exported,
                       returned |-> IF metric = 0
                                    THEN TaskResult("PASS", NoValue)
                                    ELSE TaskResult("FAIL", "Metric: " \o ToString(metric))]
             ELSE [files |-> exported, returned |-> TaskResult("FAIL", "Chart not found")]

\* ChartTestTask.run_protected on the chart found: the result and the folder
TestChart(fs, name, image, keep_charts) ==
    IF ~name.specified
    THEN [files |-> fs, returned |-> TaskRaised("TypeError")]
    ELSE LET new_file_name == NewFileName(name)
             old_file_name == OldFileName(name)
             exported == Exported(fs, name, image)
         IN  IF name.text = <<>>
             THEN [files |-> exported,
                   returned |-> TaskResult("SKIP", "Chart file name is not specified")]
             ELSE IF exported[old_file_name] # Absent
             THEN LET metric == Rmse(exported[old_file_name], exported[new_file_name])
                  IN  [files |-> IF ~keep_charts
                                 THEN [exported EXCEPT ![new_file_name] = Absent]
                                 ELSE exported,
                       returned |-> IF metric = 0
                                    THEN TaskResult("PASS", NoValue)
                                    ELSE TaskResult("FAIL", "Metric: " \o ToString(metric))]
             ELSE [files |-> exported, returned |-> TaskResult("FAIL", "Chart not found")]

NoTask ==
    [kind |-> "none", chart |-> NoValue, keep_charts |-> FALSE, rendered |-> Absent,
     returned |-> TaskResult(NoValue, NoValue)]

\* an analysis file with one chart, and a media folder without images
InitChart ==
    /\ analysis \in [{"chart1"} -> DeclaredNames]
    /\ files = [f \in FileNames |-> Absent]
    /\ lastTask = NoTask
    /\ previousTask = NoTask

ChartUpdateTask_run_protected(chart_name) ==
    /\ IF chart_name \in DOMAIN analysis
       THEN \E image \in Images :
              LET run == UpdateChart(files, analysis[chart_name], image)
              IN  /\ files' = run.files
                  /\ lastTask' = [kind |-> "update", chart |-> chart_name,
                                  keep_charts |-> FALSE,
                                  rendered |-> Rendered(analysis[chart_name], image),
                                  returned |-> run.returned]
       ELSE /\ lastTask' = [kind |-> "update", chart |-> chart_name, keep_charts |-> FALSE,
                            rendered |-> Absent,
                            returned |-> TaskResult("ERROR", "Chart not found")]
            /\ UNCHANGED files
    /\ previousTask' = lastTask
    /\ UNCHANGED <<analysis, notChart>>

ChartTestTask_run_protected(chart_name, keep_charts) ==
    /\ IF chart_name \in DOMAIN analysis
       THEN \E image \in Images :
              LET run == TestChart(files, analysis[chart_name], image, keep_charts)
              IN  /\ files' = run.files
                  /\ lastTask' = [kind |-> "test", chart |-> chart_name,
                                  keep_charts |-> keep_charts,
                                  rendered |-> Rendered(analysis[chart_name], image),
                                  returned |-> run.returned]
       ELSE /\ lastTask' = [kind |-> "test", chart |-> chart_name, keep_charts |-> keep_charts,
                            rendered |-> Absent,
                            returned |-> TaskResult("ERROR", "Chart not found")]
            /\ UNCHANGED files
    /\ previousTask' = lastTask
    /\ UNCHANGED <<analysis, notChart>>

NextChart ==
    \/ \E c \in TaskCharts : ChartUpdateTask_run_protected(c)
    \/ \E c \in TaskCharts, keep_charts \in BOOLEAN : ChartTestTask_run_protected(c, keep_charts)

----------------------------------------------------------------------------
(* One SimulationTask instance: construction, is_interactive, run_protected *)

MaxWorkers == 2

Workers == 1..MaxWorkers

TimeLimits == {"1s", "2s"}

\* the sim_time_limit argument: None, a fixed value, or a function of (config, run)
TimeLimitParams ==
    {[kind |-> "None", value |-> NoValue], [kind |-> "function", value |-> NoValue]}
    \cup {[kind |-> "value", value |-> t] : t \in TimeLimits}

\* the value of a Python bool
Bool(b) == IF b THEN "True" ELSE "False"

NotReturned ==
    SimulationTaskResult(NoValue, [returncode |-> 0, stdout |-> <<>>, stderr |-> <<>>], NoValue)

InitTask ==
    /\ constructedBy = "none"
    /\ timeLimitParam \in TimeLimitParams
    /\ functionValue \in TimeLimits
    /\ functionCalls = 0
    /\ sim_time_limit = [kind |-> "None", value |-> NoValue]
    /\ interactive = NoValue
    /\ prompts \in BOOLEAN
    /\ workerPc = [w \in Workers |-> "idle"]
    /\ workerReturned = [w \in Workers |-> NoValue]
    /\ processes = <<>>
    /\ ran = FALSE
    /\ args = <<>>
    /\ returned = NotReturned

\* the caller constructs the task itself: the argument is stored as it is
SimulationTask_init ==
    /\ constructedBy = "none"
    /\ constructedBy' = "SimulationTask"
    /\ sim_time_limit' = timeLimitParam
    /\ interactive' = NoValue
    /\ UNCHANGED <<timeLimitParam, functionValue, functionCalls, prompts, workerPc,
                   workerReturned, processes, ran, args, returned, notTask>>

\* get_simulation_tasks creates the task of (config, run): a function is called
\* here and its value is what the task gets
get_simulation_tasks ==
    /\ constructedBy = "none"
    /\ constructedBy' = "get_simulation_tasks"
    /\ IF timeLimitParam.kind = "function"
       THEN /\ sim_time_limit' = [kind |-> "value", value |-> functionValue]
            /\ functionCalls' = functionCalls + 1
       ELSE /\ sim_time_limit' = timeLimitParam
            /\ UNCHANGED functionCalls
    /\ interactive' = NoValue
    /\ UNCHANGED <<timeLimitParam, functionValue, prompts, workerPc, workerReturned,
                   processes, ran, args, returned, notTask>>

\* what the caller's function would return changes between construction and run
FunctionValueChanges ==
    /\ timeLimitParam.kind = "function"
    /\ ~ran
    /\ \E t \in TimeLimits \ {functionValue} : functionValue' = t
    /\ UNCHANGED <<constructedBy, timeLimitParam, functionCalls, sim_time_limit, interactive,
                   prompts, workerPc, workerReturned, processes, ran, args, returned, notTask>>

\* a worker calls is_interactive and tests the field
is_interactive_test(w) ==
    /\ constructedBy # "none"
    /\ workerPc[w] \in {"idle", "returned"}
    /\ IF interactive = NoValue
       THEN /\ workerPc' = [workerPc EXCEPT ![w] = "probing"]
            /\ UNCHANGED workerReturned
       ELSE /\ workerPc' = [workerPc EXCEPT ![w] = "returned"]
            /\ workerReturned' = [workerReturned EXCEPT ![w] = interactive]
    /\ UNCHANGED <<constructedBy, timeLimitParam, functionValue, functionCalls, sim_time_limit,
                   interactive, prompts, processes, ran, args, returned, notTask>>

\* the worker that found the field empty runs the probe, stores and returns its answer
is_interactive_probe(w) ==
    /\ workerPc[w] = "probing"
    /\ processes' = Append(processes, [purpose |-> "probe", via |-> "subprocess.run"])
    /\ interactive' = Bool(prompts)
    /\ workerPc' = [workerPc EXCEPT ![w] = "returned"]
    /\ workerReturned' = [workerReturned EXCEPT ![w] = Bool(prompts)]
    /\ UNCHANGED <<constructedBy, timeLimitParam, functionValue, functionCalls, sim_time_limit,
                   prompts, ran, args, returned, notTask>>

\* get_sim_time_limit: a function is called now, a value is taken as it is
get_sim_time_limit ==
    IF sim_time_limit.kind = "function" THEN functionValue ELSE sim_time_limit.value

\* run_protected: builds the argument vector, runs it through the runner, classifies
run_protected ==
    /\ constructedBy # "none"
    /\ ~ran
    /\ ran' = TRUE
    /\ args' = IF sim_time_limit.kind # "None"
               THEN <<"--sim-time-limit", get_sim_time_limit>> ELSE <<>>
    /\ functionCalls' = IF sim_time_limit.kind = "function"
                        THEN functionCalls + 1 ELSE functionCalls
    /\ processes' = Append(processes, [purpose |-> "simulation", via |-> "simulation_runner"])
    /\ \E subprocess_result \in SubprocessResults : returned' = Classify(subprocess_result)
    /\ UNCHANGED <<constructedBy, timeLimitParam, functionValue, sim_time_limit, interactive,
                   prompts, workerPc, workerReturned, notTask>>

NextTask ==
    \/ SimulationTask_init
    \/ get_simulation_tasks
    \/ FunctionValueChanges
    \/ \E w \in Workers : is_interactive_test(w)
    \/ \E w \in Workers : is_interactive_probe(w)
    \/ run_protected

----------------------------------------------------------------------------
(* SimulationTaskResult.__init__ on captured outputs                        *)

MaxTextLen == 5

\* captured standard outputs, of one or several lines
StdoutTexts ==
    SeqsUpTo({TimeLimitMarker, "12.5s", EventMarker, "3", "40", Newline}, MaxTextLen)

\* captured standard errors, of one or several lines
StderrTexts ==
    SeqsUpTo({ErrorMarker, "Queue overflow", ModuleMarker, "net.switch[3]", " ", Newline},
             MaxTextLen)

\* the process results a SimulationTaskResult is constructed from
CapturedResults ==
    [returncode : {0}, stdout : StdoutTexts, stderr : Stderrs]
    \cup [returncode : {0}, stdout : Stdouts, stderr : StderrTexts]

NotBuilt == SimulationTaskResult(NoValue, NoSubprocessResult, NoValue)

InitResult == built = NotBuilt

\* a result is constructed from what the process exited with and printed
SimulationTaskResult_init ==
    /\ built = NotBuilt
    /\ \E subprocess_result \in CapturedResults : built' = Classify(subprocess_result)
    /\ UNCHANGED notResult

\* a result is constructed for a task whose process did not give a result
SimulationTaskResult_init_without_process ==
    /\ built = NotBuilt
    /\ \E result \in {"CANCEL", "ERROR"} :
           built' = SimulationTaskResult(result, NoSubprocessResult, NoValue)
    /\ UNCHANGED notResult

NextResult ==
    \/ SimulationTaskResult_init
    \/ SimulationTaskResult_init_without_process

----------------------------------------------------------------------------
(* get_simulation_tasks and get_chart_test_tasks: the tasks they create     *)

MaxConfigs == 2

MaxCharts == 3

WorkingDirectories == {"examples/a", "examples/b"}

ConfigNames == {"General", "Other"}

\* a simulation config: the section of an ini file, with its number of runs
SimulationConfigs ==
    [working_directory : WorkingDirectories, config : ConfigNames, num_runs : 1..MaxRuns]

\* the run argument when no run is given
NoRun == 0 - 1

\* the configs of a project: no section of a working directory occurs twice
ProjectConfigs ==
    {configs \in SeqsUpTo(SimulationConfigs, MaxConfigs) :
        \A i, j \in DOMAIN configs :
            (/\ configs[i].working_directory = configs[j].working_directory
             /\ configs[i].config = configs[j].config) => i = j}

\* get_simulation_configs(working_directory_filter=...): the configs of the directory
get_simulation_configs(configs, working_directory) ==
    SelectSeq(configs, LAMBDA c : c.working_directory = working_directory)

\* the run indices get_simulation_tasks creates tasks for, in order
RunsOf(simulation_config, run) ==
    IF run # NoRun THEN <<run>> ELSE [i \in 1..simulation_config.num_runs |-> i - 1]

RECURSIVE SimulationTasksOf(_, _)
\* the task list get_simulation_tasks builds from the configs
SimulationTasksOf(simulation_configs, run) ==
    IF simulation_configs = <<>> THEN <<>>
    ELSE LET simulation_config == Head(simulation_configs)
             runs == RunsOf(simulation_config, run)
         IN  [i \in 1..Len(runs) |-> [simulation_config |-> simulation_config, run |-> runs[i]]]
             \o SimulationTasksOf(Tail(simulation_configs), run)

RECURSIVE AppendAll(_, _)
\* every task of the list is appended, whether the batch has it or not
AppendAll(simulation_tasks, tasks) ==
    IF tasks = <<>> THEN simulation_tasks
    ELSE AppendAll(Append(simulation_tasks, Head(tasks)), Tail(tasks))

RECURSIVE AppendNew(_, _)
\* a task is appended unless the batch has one of the same config and run
AppendNew(simulation_tasks, tasks) ==
    IF tasks = <<>> THEN simulation_tasks
    ELSE LET simulation_task == Head(tasks)
             same == {k \in DOMAIN simulation_tasks :
                        /\ simulation_tasks[k].simulation_config
                             = simulation_task.simulation_config
                        /\ simulation_tasks[k].run = simulation_task.run}
         IN  AppendNew(IF same = {} THEN Append(simulation_tasks, simulation_task)
                       ELSE simulation_tasks,
                       Tail(tasks))

RECURSIVE PrerequisiteTasks(_, _, _)
\* the simulation tasks get_chart_test_tasks has collected after the given charts
PrerequisiteTasks(folders, configs, run) ==
    IF folders = <<>> THEN <<>>
    ELSE LET working_directory == folders[Len(folders)]
             before == PrerequisiteTasks(SubSeq(folders, 1, Len(folders) - 1), configs, run)
         IN  AppendNew(before,
                       SimulationTasksOf(get_simulation_configs(configs, working_directory),
                                         run))

InitFactory ==
    /\ simulationConfigs \in ProjectConfigs
    /\ chartFolders \in SeqsUpTo(WorkingDirectories, MaxCharts)
    /\ runArgument \in {NoRun} \cup (0..(MaxRuns - 1))
    /\ factoryCalled = "none"
    /\ createdTasks = <<>>
    /\ createdTests = <<>>

\* get_simulation_tasks(simulation_configs=..., run=...)
get_simulation_tasks_of_configs ==
    /\ factoryCalled = "none"
    /\ factoryCalled' = "get_simulation_tasks"
    /\ createdTasks' = SimulationTasksOf(simulationConfigs, runArgument)
    /\ UNCHANGED <<simulationConfigs, chartFolders, runArgument, createdTests, notFactory>>

\* get_chart_test_tasks(run_simulations=..., run=...)
get_chart_test_tasks ==
    /\ factoryCalled = "none"
    /\ factoryCalled' = "get_chart_test_tasks"
    /\ \E run_simulations \in BOOLEAN :
         createdTasks' = IF run_simulations
                         THEN PrerequisiteTasks(chartFolders, simulationConfigs, runArgument)
                         ELSE <<>>
    /\ createdTests' = [i \in 1..Len(chartFolders) |-> [chart |-> i]]
    /\ UNCHANGED <<simulationConfigs, chartFolders, runArgument, notFactory>>

NextFactory ==
    \/ get_simulation_tasks_of_configs
    \/ get_chart_test_tasks

    /\ constructedBy = "none"
(* The specifications: each one runs one part, the other parts stay idle   *)

IdleRollup ==
    /\ children = <<>> /\ permuted = <<>>
    /\ aggregate = NoValue /\ aggregatePermuted = NoValue

IdleSim == simRuns = <<>>

IdleClean ==
    /\ workingDirectory = <<>> /\ resultsExists = FALSE
    /\ cleanOutcome = "none" /\ cleanDeleted = FALSE

IdleBatch ==
    /\ entry = "none" /\ pc = "idle" /\ build = FALSE /\ buildOutcome = "not called"
    /\ concurrent = FALSE /\ poolSize = 1
    /\ simState = <<>> /\ simCompleted = <<>> /\ simResults = NoResults
    /\ chartState = <<>> /\ chartCompleted = <<>> /\ chartResults = NoResults
    /\ outcome = NoOutcome

IdleChart ==
    /\ analysis = <<>>
    /\ files = [f \in FileNames |-> Absent]
    /\ lastTask = NoTask
    /\ previousTask = NoTask

IdleTask ==
    /\ constructedBy = "none"
    /\ timeLimitParam = [kind |-> "None", value |-> NoValue]
    /\ functionValue = "1s" /\ functionCalls = 0
    /\ sim_time_limit = [kind |-> "None", value |-> NoValue]
    /\ interactive = NoValue /\ prompts = FALSE
    /\ workerPc = [w \in Workers |-> "idle"]
    /\ workerReturned = [w \in Workers |-> NoValue]
    /\ processes = <<>> /\ ran = FALSE /\ args = <<>> /\ returned = NotReturned

IdleResult == built = NotBuilt

IdleFactory ==
    /\ simulationConfigs = <<>> /\ chartFolders = <<>> /\ runArgument = NoRun
    /\ factoryCalled = "none" /\ createdTasks = <<>> /\ createdTests = <<>>

StartRollup ==
    /\ InitRollup /\ IdleSim /\ IdleClean /\ IdleBatch /\ IdleChart /\ IdleTask /\ IdleResult
    /\ IdleFactory

SpecRollup == StartRollup /\ [][NextRollup]_vars

StartSim ==
    /\ IdleRollup /\ InitSim /\ IdleClean /\ IdleBatch /\ IdleChart /\ IdleTask /\ IdleResult
    /\ IdleFactory

SpecSim == StartSim /\ [][NextSim]_vars

StartClean ==
    /\ IdleRollup /\ IdleSim /\ InitClean /\ IdleBatch /\ IdleChart /\ IdleTask /\ IdleResult
    /\ IdleFactory

SpecClean == StartClean /\ [][NextClean]_vars

StartBatch ==
    /\ IdleRollup /\ IdleSim /\ IdleClean /\ InitBatch /\ IdleChart /\ IdleTask /\ IdleResult
    /\ IdleFactory

SpecBatch == StartBatch /\ [][NextBatch]_vars

StartChart ==
    /\ IdleRollup /\ IdleSim /\ IdleClean /\ IdleBatch /\ InitChart /\ IdleTask /\ IdleResult
    /\ IdleFactory

SpecChart == StartChart /\ [][NextChart]_vars

StartTask ==
    /\ IdleRollup /\ IdleSim /\ IdleClean /\ IdleBatch /\ IdleChart /\ InitTask /\ IdleResult
    /\ IdleFactory

SpecTask == StartTask /\ [][NextTask]_vars

StartResult ==
    /\ IdleRollup /\ IdleSim /\ IdleClean /\ IdleBatch /\ IdleChart /\ IdleTask /\ InitResult
    /\ IdleFactory

SpecResult == StartResult /\ [][NextResult]_vars

StartFactory ==
    /\ IdleRollup /\ IdleSim /\ IdleClean /\ IdleBatch /\ IdleChart /\ IdleTask /\ IdleResult
    /\ InitFactory

SpecFactory == StartFactory /\ [][NextFactory]_vars

\* every kind of task: simulation tasks, chart tasks on a folder, or a batch
StartTasks == StartSim \/ StartChart \/ StartBatch

NextTasks ==
    \/ IdleChart /\ IdleBatch /\ NextSim
    \/ ~IdleChart /\ NextChart
    \/ ~IdleBatch /\ NextBatch

SpecTasks == StartTasks /\ [][NextTasks]_vars

----------------------------------------------------------------------------
(* The claims *)

\* C1: when MultipleChartTestTasks.run_protected runs and the simulation batch's
\* rolled-up result is not DONE, the call returns (it does not raise) a result
\* whose code and reason are those of the simulation batch.
C1_ShortCircuitReturnsBatchFailure ==
    (entry = "run_chart_tests" /\ pc = "done" /\ simResults.result # "DONE")
        => /\ outcome.kind = "returned"
           /\ outcome.result = simResults.result
           /\ outcome.reason = simResults.reason

\* C2: no ChartTestTask starts before the whole simulation batch has completed
\* and been rolled up, and none ever runs unless that rollup is DONE.
C2_ChartTasksOnlyAfterDoneSimulations ==
    \A j \in DOMAIN chartState :
        chartState[j] # "PENDING"
            => /\ AllTerminal(simState)
               /\ Len(simResults.children) = Len(simState)
               /\ simResults.result = "DONE"

C2_Witness ==
    /\ entry = "run_chart_tests"
    /\ Len(simState) = MaxTasks
    /\ \E j \in DOMAIN chartState : chartState[j] = "RUNNING"

\* C3: for a non-empty list of child codes, the rollup is CANCEL if any child is
\* CANCEL, else ERROR if any is ERROR, else FAIL if any is FAIL, else SKIP if all
\* are SKIP, else DONE.
C3_RollupPrecedence ==
    (aggregate # NoValue /\ children # <<>>)
        => LET SomeChild(code) == \E i \in DOMAIN children : children[i] = code
           IN  aggregate =
                 CASE SomeChild("CANCEL") -> "CANCEL"
                   [] ~SomeChild("CANCEL") /\ SomeChild("ERROR") -> "ERROR"
                   [] ~SomeChild("CANCEL") /\ ~SomeChild("ERROR") /\ SomeChild("FAIL") -> "FAIL"
                   [] (\A i \in DOMAIN children : children[i] = "SKIP") -> "SKIP"
                   [] OTHER -> "DONE"

C3_Witness ==
    /\ aggregate = "CANCEL"
    /\ \E i \in DOMAIN children : children[i] = "ERROR"
    /\ \E i \in DOMAIN children : children[i] = "SKIP"

\* C4: the rollup of a child result list and the rollup of any permutation of it
\* are the same code.
C4_RollupOrderIndependent ==
    aggregate # NoValue => aggregatePermuted = aggregate

C4_Witness ==
    /\ aggregate # NoValue
    /\ Len(children) = MaxChildren
    /\ permuted # children
    /\ permuted[1] = "DONE" /\ children[1] = "FAIL"

\* C5: a batch of N tasks, concurrent with any pool size and completion order or
\* sequential, yields exactly N child results, the i-th one being the result of
\* the i-th submitted task.
C5_ChildResultsInSubmissionOrder ==
    /\ simResults.result # NoValue
         => /\ Len(simResults.children) = Len(simState)
            /\ \A i \in DOMAIN simState : simResults.children[i].task = i
    /\ chartResults.result # NoValue
         => /\ Len(chartResults.children) = Len(chartState)
            /\ \A i \in DOMAIN chartState : chartResults.children[i].task = i

C5_Witness ==
    /\ concurrent /\ poolSize > 1
    /\ simResults.result # NoValue
    /\ Len(simState) = MaxTasks
    /\ simCompleted[1].task # 1

\* C6: with build enabled, build_project is called before any child task
\* executes; and if the build fails the batch ends with a rolled-up ERROR result
\* and no child task is ever executed.
C6_BuildFailureGivesRolledUpError ==
    /\ (entry = "run_simulations" /\ build /\ \E i \in DOMAIN simState : simState[i] # "PENDING")
         => buildOutcome # "not called"
    /\ (pc = "done" /\ buildOutcome \in {"raised", "failure returned"})
         => /\ outcome.kind = "returned"
            /\ outcome.result = "ERROR"
            /\ \A i \in DOMAIN simState : simState[i] = "PENDING"

\* C7: exit status -SIGINT gives CANCEL with reason "Cancel by user", exit status
\* 0 gives DONE with no reason, every other exit status gives ERROR with reason
\* "Non-zero exit code".
C7_ExitStatusClassification ==
    \A i \in DOMAIN simRuns :
        LET returncode == simRuns[i].subprocess_result.returncode
        IN  /\ returncode = -2
               => simRuns[i].result = "CANCEL" /\ simRuns[i].reason = "Cancel by user"
            /\ returncode = 0
               => simRuns[i].result = "DONE" /\ simRuns[i].reason = NoValue
            /\ returncode \notin {-2, 0}
               => simRuns[i].result = "ERROR" /\ simRuns[i].reason = "Non-zero exit code"

C7_Witness ==
    /\ \E i \in DOMAIN simRuns : simRuns[i].result = "CANCEL"
    /\ \E i \in DOMAIN simRuns :
           simRuns[i].subprocess_result.returncode = 2 /\ simRuns[i].result = "ERROR"

\* C8: two runs with the same exit status get the same result code and reason,
\* whatever their captured standard output and standard error.
C8_ResultDependsOnExitStatusOnly ==
    \A i, j \in DOMAIN simRuns :
        simRuns[i].subprocess_result.returncode = simRuns[j].subprocess_result.returncode
            => /\ simRuns[i].result = simRuns[j].result
               /\ simRuns[i].reason = simRuns[j].reason

C8_Witness ==
    \E i, j \in DOMAIN simRuns :
        /\ simRuns[i].subprocess_result.returncode = 0
        /\ simRuns[j].subprocess_result.returncode = 0
        /\ simRuns[i].subprocess_result.stderr = <<>>
        /\ simRuns[j].subprocess_result.stderr # <<>>
        /\ simRuns[i].subprocess_result.stdout # simRuns[j].subprocess_result.stdout

\* the text of the results path has "/home/" in it
HasHomeMarker ==
    \E i \in 1..(Len(ResultsPath) - 2) :
        ResultsPath[i] = "/" /\ ResultsPath[i + 1] = "home" /\ ResultsPath[i + 2] = "/"

\* C9: clean_simulation_results deletes the results directory only if its path
\* contains the home-directory marker; for every other path it raises, deletes
\* nothing, and the directory still exists afterwards.
C9_CleanOnlyInHome ==
    [][/\ (resultsExists /\ ~resultsExists') => HasHomeMarker
       /\ (clean_simulation_results /\ ~HasHomeMarker)
            => /\ cleanOutcome' = "raised"
               /\ cleanDeleted' = FALSE
               /\ resultsExists' = resultsExists]_vars

C9_Witness ==
    /\ cleanOutcome = "raised"
    /\ resultsExists
    /\ \E i \in DOMAIN workingDirectory : workingDirectory[i] = "home"

\* C10: for a chart of the analysis file (with a declared export name, the SKIP
\* rule aside), ChartUpdateTask returns INSERT when <name>.png does not exist,
\* KEEP when it exists with the rendered content (and it is left unchanged),
\* UPDATE when it exists with another content; and afterwards <name>.png exists
\* with the rendered content and <name>_new.png does not exist.
C10_UpdateReconcilesBaseline ==
    [][\A c \in DOMAIN analysis :
         (/\ lastTask'.kind = "update" /\ lastTask'.chart = c
          /\ analysis[c].specified /\ analysis[c].text # <<>>)
           => LET baseline == analysis[c].text \o <<".png">>
                  candidate == analysis[c].text \o <<"_new", ".png">>
                  image == lastTask'.rendered
                  result == lastTask'.returned.result
              IN  /\ files[baseline] = Absent => result = "INSERT"
                  /\ (files[baseline] # Absent /\ files[baseline] = image)
                       => result = "KEEP" /\ files'[baseline] = files[baseline]
                  /\ (files[baseline] # Absent /\ files[baseline] # image)
                       => result = "UPDATE"
                  /\ files'[baseline] = image
                  /\ files'[candidate] = Absent]_vars

\* C11: ChartTestTask, for a chart with a non-empty declared export name: a chart
\* name that is not in the analysis file gives ERROR "Chart not found"; no
\* baseline <name>.png gives FAIL "Chart not found"; a baseline with metric 0
\* gives PASS without a reason; a baseline with a nonzero metric gives FAIL with
\* the metric in the reason.
C11_TestClassifies ==
    [][\A c \in TaskCharts :
         (lastTask'.kind = "test" /\ lastTask'.chart = c)
           => IF c \notin DOMAIN analysis
              THEN lastTask'.returned = TaskResult("ERROR", "Chart not found")
              ELSE (analysis[c].specified /\ analysis[c].text # <<>>)
                     => LET baseline == analysis[c].text \o <<".png">>
                            image == lastTask'.rendered
                            metric == Rmse(files[baseline], image)
                        IN  /\ files[baseline] = Absent
                               => lastTask'.returned = TaskResult("FAIL", "Chart not found")
                            /\ (files[baseline] # Absent /\ metric = 0)
                               => lastTask'.returned = TaskResult("PASS", NoValue)
                            /\ (files[baseline] # Absent /\ metric # 0)
                               => lastTask'.returned
                                    = TaskResult("FAIL", "Metric: " \o ToString(metric))]_vars

\* C12: when the declared export name is None or empty, ChartTestTask and
\* ChartUpdateTask return SKIP with reason "Chart file name is not specified":
\* they do not raise and return no other code.
C12_SkipWithoutExportName ==
    \A c \in DOMAIN analysis :
        (lastTask.chart = c /\ (~analysis[c].specified \/ analysis[c].text = <<>>))
            => lastTask.returned = TaskResult("SKIP", "Chart file name is not specified")

\* C14: a chart task for a chart with a declared export name touches no file of the
\* folder but that name's baseline <declared-name>.png and its candidate
\* <declared-name>_new.png, names that contain "_new" included.
C14_TaskFilesAreItsOwn ==
    [][\A c \in DOMAIN analysis :
         (lastTask'.chart = c /\ analysis[c].specified /\ analysis[c].text # <<>>)
           => \A f \in FileNames :
                files'[f] # files[f]
                  => f \in {analysis[c].text \o <<".png">>,
                            analysis[c].text \o <<"_new", ".png">>}]_vars

\* the test task has compared its candidate against a baseline it found
Compared(task) ==
    /\ task.kind = "test"
    /\ \/ task.returned.result = "PASS"
       \/ task.returned.result = "FAIL" /\ task.returned.reason # "Chart not found"

\* C15: when ChartTestTask has compared the candidate against an existing baseline,
\* the candidate file is gone on return if keep_charts is false and is the rendered
\* image if keep_charts is true, whether the comparison passed or failed.
C15_CandidateRemovedUnlessKept ==
    [][\A c \in DOMAIN analysis :
         (lastTask'.chart = c /\ Compared(lastTask'))
           => files'[NewFileName(analysis[c])]
                = IF lastTask'.keep_charts THEN lastTask'.rendered ELSE Absent]_vars

C15_Witness ==
    /\ Compared(lastTask)
    /\ lastTask.returned.result = "FAIL"
    /\ ~lastTask.keep_charts
    /\ lastTask.chart \in DOMAIN analysis
    /\ files[NewFileName(analysis[lastTask.chart])] = Absent

\* C13: over any calls of is_interactive on one task, concurrent first calls
\* included, the probe process is run at most once, and every call that has
\* returned has returned the memoized value.
C13_ProbeAtMostOnce ==
    /\ Cardinality({i \in DOMAIN processes : processes[i].purpose = "probe"}) <= 1
    /\ \A w \in Workers : workerReturned[w] # NoValue => workerReturned[w] = interactive

\* C17: a time limit given as a function is not called before the task's run builds
\* its argument vector, however the task was created, and the value put in the
\* argument vector is the function's value at that moment.
C17_TimeLimitEvaluatedAtDispatch ==
    [][timeLimitParam.kind = "function"
         => /\ ~ran' => functionCalls' = 0
            /\ (~ran /\ ran') => args' = <<"--sim-time-limit", functionValue>>]_vars

\* C18: every simulator process started for a task, the simulation run and the
\* is_interactive probe alike, is started through the injected runner.
C18_ProcessesThroughRunner ==
    \A i \in DOMAIN processes : processes[i].via = "simulation_runner"

\* the places where a line of the text reads
\* "<!> Simulation time limit reached -- at t=<time>, event #<n>": the marker is
\* at m[1], ", event #" at m[2], and the digits of n end at m[3]
TimeLimitLines(text) ==
    {m \in (1..Len(text)) \X (1..Len(text)) \X (1..Len(text)) :
        /\ m[1] < m[2] /\ m[2] < m[3]
        /\ text[m[1]] = TimeLimitMarker /\ text[m[2]] = EventMarker
        /\ \A x \in (m[1] + 1)..(m[2] - 1) : text[x] # Newline
        /\ \A x \in (m[2] + 1)..m[3] : text[x] \in DigitPieces
        /\ m[3] < Len(text) => text[m[3] + 1] \notin DigitPieces}

\* C19: in a SimulationTaskResult, last_event_number and last_simulation_time are
\* both present or both absent; built from a captured process result they are
\* present exactly when a line of stdout reads "Simulation time limit reached --
\* at t=<time>, event #<n>", and then they are n as an integer and <time> as text
\* (340 and "12.5s" in the example); built without a process result both are absent.
C19_TimeLimitFieldsTogether ==
    LET stdout == built.subprocess_result.stdout
    IN  /\ (built.last_event_number = Missing) <=> (built.last_simulation_time = Missing)
        /\ built.subprocess_result = NoSubprocessResult => built.last_event_number = Missing
        /\ built.subprocess_result # NoSubprocessResult
             => /\ built.last_event_number # Missing <=> TimeLimitLines(stdout) # {}
                /\ built.last_event_number # Missing
                     => \E m \in TimeLimitLines(stdout) :
                          /\ built.last_simulation_time
                               = Present(SubSeq(stdout, m[1] + 1, m[2] - 1))
                          /\ built.last_event_number
                               = Present(IntOf(SubSeq(stdout, m[2] + 1, m[3])))
                /\ stdout = <<TimeLimitMarker, "12.5s", EventMarker, "340">>
                     => /\ built.last_event_number = Present(340)
                        /\ built.last_simulation_time = Present(<<"12.5s">>)

C19_Witness ==
    /\ built.result = "DONE"
    /\ Len(built.subprocess_result.stdout) = 5
    /\ built.last_event_number = Present(340)
    /\ built.last_simulation_time = Present(<<"12.5s">>)

\* the places where a line of the text reads "<!> Error: <message> -- in module
\* <module>": the error marker is at m[1] and " -- in module " at m[2]
ErrorInModuleLines(text) ==
    {m \in (1..Len(text)) \X (1..Len(text)) :
        /\ m[1] < m[2]
        /\ text[m[1]] = ErrorMarker /\ text[m[2]] = ModuleMarker
        /\ \A x \in (m[1] + 1)..(m[2] - 1) : text[x] # Newline}

\* the places where the text reads "<!> Error: "
ErrorLines(text) == {i \in 1..Len(text) : text[i] = ErrorMarker}

\* C20: the error fields of a SimulationTaskResult follow a two-step match on
\* stderr: when "Error: <message> -- in module <module>" matches, error_message and
\* error_module are the matched parts; otherwise when a bare "Error: <message>"
\* matches, error_message is set and error_module is absent; otherwise both are
\* absent. error_module present implies error_message present.
C20_ErrorFieldsTwoStep ==
    LET stderr == built.subprocess_result.stderr
    IN  /\ built.error_module # Missing => built.error_message # Missing
        /\ built.subprocess_result = NoSubprocessResult => built.error_message = Missing
        /\ built.subprocess_result # NoSubprocessResult
             => /\ ErrorInModuleLines(stderr) # {}
                     => \E m \in ErrorInModuleLines(stderr) :
                          /\ built.error_message
                               = Present(Strip(SubSeq(stderr, m[1] + 1, m[2] - 1)))
                          /\ built.error_module
                               = Present(Strip(SubSeq(stderr, m[2] + 1,
                                                      LineEnd(stderr, m[2] + 1))))
                /\ (ErrorInModuleLines(stderr) = {} /\ ErrorLines(stderr) # {})
                     => /\ built.error_module = Missing
                        /\ \E i \in ErrorLines(stderr) :
                              built.error_message
                                = Present(Strip(SubSeq(stderr, i + 1, LineEnd(stderr, i + 1))))
                /\ ErrorLines(stderr) = {}
                     => built.error_message = Missing /\ built.error_module = Missing
                /\ stderr = <<ErrorMarker, "Queue overflow", ModuleMarker, "net.switch[3]">>
                     => /\ built.error_message = Present(<<"Queue overflow">>)
                        /\ built.error_module = Present(<<"net.switch[3]">>)

C20_Witness ==
    /\ Len(built.subprocess_result.stderr) = 5
    /\ built.error_message = Present(<<"Queue overflow">>)
    /\ built.error_module = Present(<<"net.switch[3]">>)

\* the result codes the tasks and the batch wrappers have produced so far
ProducedCodes ==
    ({simRuns[i].result : i \in DOMAIN simRuns}
     \cup {lastTask.returned.result}
     \cup {simCompleted[i].result : i \in DOMAIN simCompleted}
     \cup {chartCompleted[i].result : i \in DOMAIN chartCompleted}
     \cup {simResults.result, chartResults.result, outcome.result}) \ {NoValue}

\* C16 as stated: every result code a task or a batch wrapper produces is one of
\* DONE, ERROR, CANCEL, FAIL, SKIP, KEEP, UPDATE, INSERT.
C16_CodesInStatedSet ==
    ProducedCodes \subseteq {"DONE", "ERROR", "CANCEL", "FAIL", "SKIP", "KEEP", "UPDATE", "INSERT"}

\* C16, amended: every result code a task or a batch wrapper produces is one of
\* DONE, ERROR, CANCEL, FAIL, SKIP, KEEP, UPDATE, INSERT, PASS.
C16_CodesInClosedSet ==
    ProducedCodes
        \subseteq {"DONE", "ERROR", "CANCEL", "FAIL", "SKIP", "KEEP", "UPDATE", "INSERT", "PASS"}

C16_Witness ==
    /\ lastTask.kind = "test"
    /\ lastTask.returned.result = "PASS"

\* the task before the last one was an update that reconciled the baseline, and
\* the last task ran for the same chart and rendered the same image
AfterUpdateSameImage(kind) ==
    /\ previousTask.kind = "update"
    /\ previousTask.returned.result \in {"INSERT", "UPDATE", "KEEP"}
    /\ lastTask.kind = kind
    /\ lastTask.chart = previousTask.chart
    /\ lastTask.rendered = previousTask.rendered

\* C21: after ChartUpdateTask has run for a chart with result INSERT, UPDATE or
\* KEEP, a ChartTestTask for the same chart that renders the same image returns PASS.
C21_UpdateThenTestPasses ==
    AfterUpdateSameImage("test") => lastTask.returned = TaskResult("PASS", NoValue)

C21_Witness ==
    /\ AfterUpdateSameImage("test")
    /\ previousTask.returned.result = "UPDATE"
    /\ lastTask.returned.result = "PASS"

\* C22: after ChartUpdateTask has run for a chart with result INSERT, UPDATE or
\* KEEP, a second ChartUpdateTask for the same chart that renders the same image
\* returns KEEP and changes no file of the folder but its own candidate.
C22_UpdateIdempotent ==
    [][(/\ lastTask.kind = "update"
        /\ lastTask.returned.result \in {"INSERT", "UPDATE", "KEEP"}
        /\ lastTask'.kind = "update"
        /\ lastTask'.chart = lastTask.chart
        /\ lastTask'.rendered = lastTask.rendered)
         => /\ lastTask'.returned = TaskResult("KEEP", NoValue)
            /\ \A f \in FileNames \ {NewFileName(analysis[lastTask.chart])} :
                   files'[f] = files[f]]_vars

C22_Witness ==
    /\ AfterUpdateSameImage("update")
    /\ previousTask.returned.result = "INSERT"
    /\ lastTask.returned.result = "KEEP"

\* C23: with keep_charts false a ChartTestTask leaves no candidate file on disk
\* whatever its result, and a ChartUpdateTask leaves none whatever its result.
C23_NoCandidateLeft ==
    [][\A c \in DOMAIN analysis :
         (lastTask'.chart = c /\ ~lastTask'.keep_charts /\ analysis[c].specified)
           => files'[NewFileName(analysis[c])] = Absent]_vars

\* the names the chart tasks use for baselines
BaselineNames ==
    {OldFileName(name) : name \in {d \in DeclaredNames : d.specified /\ d.text # <<>>}}

\* C24: a ChartTestTask run changes no baseline: whatever its result and for
\* either value of keep_charts, every baseline file is there with the same content
\* after the run as before it, and no baseline file has appeared.
C24_TestKeepsBaselines ==
    [][lastTask'.kind = "test" => \A f \in BaselineNames : files'[f] = files[f]]_vars

C24_Witness ==
    /\ lastTask.kind = "test"
    /\ lastTask.returned.result = "FAIL"
    /\ lastTask.chart \in DOMAIN analysis
    /\ files[OldFileName(analysis[lastTask.chart])] \notin {Absent, lastTask.rendered}

\* the run indices a config gets tasks for
ExpectedRuns(simulation_config) ==
    IF runArgument = NoRun THEN 0..(simulation_config.num_runs - 1) ELSE {runArgument}

\* C25: the simulation batch of get_chart_test_tasks never holds two tasks of the
\* same (config, run), however many charts share a working directory; and
\* get_simulation_tasks creates exactly one task per (config, run), the runs
\* 0..num_runs-1 of each config in order when no run is given.
C25_OneTaskPerConfigAndRun ==
    /\ factoryCalled = "get_chart_test_tasks"
         => \A i, j \in DOMAIN createdTasks :
              (/\ createdTasks[i].simulation_config = createdTasks[j].simulation_config
               /\ createdTasks[i].run = createdTasks[j].run) => i = j
    /\ factoryCalled = "get_simulation_tasks"
         => /\ \A k \in DOMAIN simulationConfigs :
                 \A r \in ExpectedRuns(simulationConfigs[k]) :
                    Cardinality({i \in DOMAIN createdTasks :
                                   createdTasks[i] = [simulation_config |-> simulationConfigs[k],
                                                      run |-> r]}) = 1
            /\ \A i \in DOMAIN createdTasks :
                 \E k \in DOMAIN simulationConfigs :
                    /\ createdTasks[i].simulation_config = simulationConfigs[k]
                    /\ createdTasks[i].run \in ExpectedRuns(simulationConfigs[k])
            /\ \A i, j \in DOMAIN createdTasks :
                 (i < j /\ createdTasks[i].simulation_config = createdTasks[j].simulation_config)
                    => createdTasks[i].run < createdTasks[j].run

C25_Witness ==
    /\ factoryCalled = "get_chart_test_tasks"
    /\ Len(chartFolders) = 3
    /\ chartFolders[1] = chartFolders[3]
    /\ runArgument = NoRun
    /\ Len(createdTasks) = 3

====
